---- MODULE Spec2Model ----
(***************************************************************************)
(* DWAS scanner: job orchestration (backend/main.py, backend/tasks.py),    *)
(* scan aggregation (scanner/scanner.py) and report score                  *)
(* (generate_html_report).                                                 *)
(*                                                                         *)
(* JSON objects are functions from key strings to values; dict.get(k, d)   *)
(* is Get.  Timestamps are clock readings 1, 2, ..., None is NoTime.        *)
(* The score is kept in half points (Score2 = 2 * score) so that the       *)
(* weight 0.5 stays an integer.                                            *)
(***************************************************************************)
EXTENDS Integers, Sequences, FiniteSets, TLC

VARIABLES
    jobs,       \* the jobs table: job_id -> row
    nextId,     \* the next uuid4 (fresh identifiers, in order of generation)
    zips,       \* uploads/<job_id>_<filename> archives: set of <<job_id, filename>>
    dirs,       \* uploads/<job_id>_extracted trees: set of <<job_id, has requirements.txt>>
    queue,      \* broker: job_id -> number of run_scan_task messages waiting
    enq,        \* history: job_id -> number of run_scan_task.delay calls
    redeliv,    \* history: number of broker redeliveries so far
    deleted,    \* history: job ids removed by a delete request
    wpc,        \* worker -> position inside run_scan_task
    wjob,       \* worker -> job_id argument of the task it runs
    taskFailed, \* history: job ids whose task ended with an exception
    discarded,  \* history: job ids whose task returned at line 18
    reports,    \* reports/<job_id>_report.json files: set of job_id
    resp,       \* the response to the last HTTP request
    rpc,        \* report pipeline: position
    tools,      \* report pipeline: outputs of the external tools
    project,    \* report pipeline: does the project root hold requirements.txt
    rrow,       \* report pipeline: the job row the scan is stored in
    report      \* report pipeline: numbers computed by generate_html_report

vars == <<jobs, nextId, zips, dirs, queue, enq, redeliv, deleted, wpc, wjob,
          taskFailed, discarded, reports, resp, rpc, tools, project, rrow, report>>
jobVars == <<jobs, nextId, zips, dirs, queue, enq, redeliv, deleted, wpc, wjob,
             taskFailed, discarded, reports, resp>>
repVars == <<rpc, tools, project, rrow, report>>

----------------------------------------------------------------------------
(* Bounds *)
MaxJobs == 2
MaxRedeliver == 1
MaxBandit == 4
MaxSemgrep == 3
MaxVulns == 2

Workers == {"w1", "w2"}
JobIds == 1..MaxJobs
NoTime == 0
NoSummary == -1

(* datetime.utcnow() at a write to a row: later than every timestamp the   *)
(* row already holds (updated_at is the latest of them).                    *)
FirstTime == 1
utcnow(row) == row.updated_at + 1

(* file.filename as a sequence of tokens: <<>> is the missing filename and  *)
(* the last token is the extension.                                         *)
Filenames == {<<>>, <<"a", ".txt">>, <<"a", ".zip">>}
EndsWith(name, suffix) == Len(name) > 0 /\ name[Len(name)] = suffix

----------------------------------------------------------------------------
(* HTTP responses: the status code and the kind of body.  A handler that    *)
(* returns a value answers 200; an exception that leaves a handler is       *)
(* answered 500 by the framework.                                           *)
NoResponse == [code |-> 0, body |-> "none"]
Ok == [code |-> 200, body |-> "ok"]
NotFound == [code |-> 200, body |-> "Job not found"]
ServerError == [code |-> 500, body |-> "Internal Server Error"]

ClientErrors == 400..499

----------------------------------------------------------------------------
(* JSON helpers *)
EmptyDoc == [k \in {} |-> 0]
Get(d, k, default) == IF k \in DOMAIN d THEN d[k] ELSE default

(* Outcome of a call: a return value, a raised exception, or no return. *)
Ret(v) == [t |-> "ret", v |-> v]
Raise(m) == [t |-> "raise", m |-> m]
Hang == [t |-> "hang"]

(* What subprocess.run observes of one external tool. *)
Json(v) == [t |-> "json", v |-> v]
Garbage == [t |-> "garbage"]
NoBinary == [t |-> "nobinary"]
NeverEnds == [t |-> "neverends"]

(* subprocess.run(..., capture_output=True, text=True) followed by          *)
(* try: json.loads(stdout) except: error entry.  subprocess.run is outside  *)
(* the try and has no timeout argument.                                     *)
RunTool(o, name, failure) ==
    CASE o.t = "nobinary" -> Raise(name)
      [] o.t = "neverends" -> Hang
      [] o.t = "json" -> Ret(o.v)
      [] OTHER -> Ret(failure)

run_bandit(o) == RunTool(o, "FileNotFoundError: bandit", [error |-> "Bandit scan failed"])

run_semgrep(o) == RunTool(o, "FileNotFoundError: semgrep", [error |-> "Semgrep scan failed"])

(* Faulty variant: pip-audit is run whether or not requirements.txt exists. *)
run_pip_audit_NoCheck(hasManifest, o) ==
    RunTool(o, "FileNotFoundError: pip-audit", [error |-> "pip-audit failed"])

run_pip_audit(hasManifest, o) ==
    IF ~hasManifest
    THEN Ret([vulnerabilities_found |-> 0, details |-> <<>>])
    ELSE RunTool(o, "FileNotFoundError: pip-audit", [error |-> "pip-audit failed"])

(* One subprocess per *.py file; os is the sequence of their outputs. *)
RECURSIVE run_pylint_from(_, _)
run_pylint_from(os, results) ==
    IF os = <<>> THEN Ret(results)
    ELSE LET r == RunTool(Head(os), "FileNotFoundError: pylint", [error |-> "pylint failed"])
         IN IF r.t # "ret" THEN r
            ELSE run_pylint_from(Tail(os), Append(results, r.v))

run_pylint(os) == run_pylint_from(os, <<>>)

(* Faulty variant: the pylint entry is left out of the document. *)
scan_project_NoLint(hasManifest, o) ==
    LET b == run_bandit(o.bandit)
        s == run_semgrep(o.semgrep)
        p == run_pip_audit(hasManifest, o.pip)
    IN  IF b.t # "ret" THEN b
        ELSE IF s.t # "ret" THEN s
        ELSE IF p.t # "ret" THEN p
        ELSE Ret([static_code_analysis |-> [bandit |-> b.v, semgrep |-> s.v],
                  dependency_scan |-> p.v,
                  summary |-> "Scan completed"])

scan_project(hasManifest, o) ==
    LET b == run_bandit(o.bandit)
        s == run_semgrep(o.semgrep)
        p == run_pip_audit(hasManifest, o.pip)
        l == run_pylint(o.pylint)
    IN  IF b.t # "ret" THEN b
        ELSE IF s.t # "ret" THEN s
        ELSE IF p.t # "ret" THEN p
        ELSE IF l.t # "ret" THEN l
        ELSE Ret([static_code_analysis |-> [bandit |-> b.v, semgrep |-> s.v],
                  dependency_scan |-> p.v,
                  coding_standards |-> l.v,
                  summary |-> "Scan completed"])

----------------------------------------------------------------------------
(* Job rows *)
Terminal == {"completed", "failed"}

NewJob(name, t) ==
    [filename |-> name, status |-> "pending", summary |-> NoSummary,
     result |-> EmptyDoc, created_at |-> t, updated_at |-> t,
     completed_at |-> NoTime]

Present == DOMAIN jobs

(* db.add(job); db.commit() *)
Insert(tbl, j, row) == [k \in DOMAIN tbl \cup {j} |-> IF k = j THEN row ELSE tbl[k]]

(* db.delete(job); db.commit() *)
Remove(tbl, j) == [k \in DOMAIN tbl \ {j} |-> tbl[k]]

(* Faulty variant: the task is sent twice. *)
Delay_Twice(q, j) == [q EXCEPT ![j] = @ + 2]

(* run_scan_task.delay(job_id, extract_path) *)
Delay(q, j) == [q EXCEPT ![j] = @ + 1]

(* the unlink / rmtree loop of delete_job *)
RemoveZips(fs, j, name) == fs \ {<<j, name>>}

(* Faulty variant: the extracted tree is left behind. *)
RemoveDirs_Keep(ds, j) == ds

RemoveDirs(ds, j) == {d \in ds : d[1] # j}

----------------------------------------------------------------------------
(* The tool outputs a worker can meet during a scan of a job. *)
OneMedium == Json([results |-> <<[issue_severity |-> "MEDIUM"]>>])
NoFindings == Json([results |-> <<>>])
OneVuln == Json([dependencies |-> <<[vulns |-> <<"CVE">>]>>])
LintOk == <<Json(<<>>)>>

ScanInputs ==
    { [bandit |-> OneMedium, semgrep |-> NoFindings, pip |-> OneVuln, pylint |-> LintOk],
      [bandit |-> OneMedium, semgrep |-> Garbage, pip |-> OneVuln, pylint |-> LintOk],
      [bandit |-> OneMedium, semgrep |-> NoBinary, pip |-> OneVuln, pylint |-> LintOk],
      [bandit |-> OneMedium, semgrep |-> NoFindings, pip |-> NeverEnds, pylint |-> LintOk] }

----------------------------------------------------------------------------
Init ==
    /\ jobs = [k \in {} |-> 0]
    /\ nextId = 1
    /\ zips = {}
    /\ dirs = {}
    /\ queue = [j \in JobIds |-> 0]
    /\ enq = [j \in JobIds |-> 0]
    /\ redeliv = 0
    /\ deleted = {}
    /\ wpc = [w \in Workers |-> "idle"]
    /\ wjob = [w \in Workers |-> 0]
    /\ taskFailed = {}
    /\ discarded = {}
    /\ reports = {}
    /\ resp = NoResponse
    /\ rpc = "off"
    /\ tools = [bandit |-> NoFindings, semgrep |-> NoFindings, pip |-> OneVuln, pylint |-> <<>>]
    /\ project = FALSE
    /\ rrow = NewJob(<<"a", ".zip">>, FirstTime)
    /\ report = [total |-> 0, critical |-> 0, high |-> 0, score2 |-> 20]

(* Faulty variant: the lowest identifier no row uses is handed out again. *)
uuid4_Reuse(next, used) ==
    IF \E k \in 1..next : k \notin used
    THEN CHOOSE k \in 1..next : k \notin used /\ \A m \in 1..(k - 1) : m \in used
    ELSE next

(* str(uuid.uuid4()): an identifier that was never handed out before *)
uuid4(next, used) == next

(* POST /upload.  name is file.filename, goodZip says whether ZipFile can   *)
(* read the archive, hasManifest whether its root holds requirements.txt,   *)
(* brokerUp whether the broker accepts the message.                         *)
upload_project(name, goodZip, hasManifest, brokerUp) ==
    /\ nextId <= MaxJobs
    /\ IF name = <<>> \/ ~EndsWith(name, ".zip")
       THEN /\ resp' = ServerError
            /\ UNCHANGED <<jobs, nextId, zips, dirs, queue, enq>>
       ELSE LET j == uuid4(nextId, Present) IN
            /\ nextId' = nextId + 1
            /\ zips' = zips \cup {<<j, name>>}
            /\ IF ~goodZip
               THEN /\ dirs' = dirs \cup {<<j, FALSE>>}
                    /\ resp' = ServerError
                    /\ UNCHANGED <<jobs, queue, enq>>
               ELSE /\ dirs' = dirs \cup {<<j, hasManifest>>}
                    /\ jobs' = Insert(jobs, j, NewJob(name, FirstTime))
                    /\ IF brokerUp
                       THEN /\ queue' = Delay(queue, j)
                            /\ enq' = [enq EXCEPT ![j] = @ + 1]
                            /\ resp' = Ok
                       ELSE /\ resp' = ServerError
                            /\ UNCHANGED <<queue, enq>>
    /\ UNCHANGED <<redeliv, deleted, wpc, wjob, taskFailed, discarded, reports, repVars>>

(* GET /jobs/{job_id}: the response body *)
get_job(j) ==
    IF j \notin Present
    THEN [error |-> "Job not found"]
    ELSE [job_id |-> j, filename |-> jobs[j].filename, status |-> jobs[j].status,
          summary |-> jobs[j].summary, result |-> jobs[j].result,
          created_at |-> jobs[j].created_at, updated_at |-> jobs[j].updated_at,
          completed_at |-> jobs[j].completed_at]

(* DELETE /jobs/{job_id} *)
delete_job(j) ==
    /\ IF j \notin Present
       THEN /\ resp' = NotFound
            /\ UNCHANGED <<jobs, zips, dirs, deleted>>
       ELSE /\ jobs' = Remove(jobs, j)
            /\ zips' = RemoveZips(zips, j, jobs[j].filename)
            /\ dirs' = RemoveDirs(dirs, j)
            /\ deleted' = deleted \cup {j}
            /\ resp' = Ok
    /\ UNCHANGED <<nextId, queue, enq, redeliv, wpc, wjob, taskFailed, discarded, reports, repVars>>

(* DELETE /jobs *)
delete_all_jobs ==
    /\ jobs' = [k \in {} |-> 0]
    /\ zips' = {z \in zips : \A j \in Present : z # <<j, jobs[j].filename>>}
    /\ dirs' = {d \in dirs : d[1] \notin Present}
    /\ deleted' = deleted \cup Present
    /\ resp' = Ok
    /\ UNCHANGED <<nextId, queue, enq, redeliv, wpc, wjob, taskFailed, discarded, reports, repVars>>

(* GET /jobs *)
get_all_jobs ==
    /\ resp' = Ok
    /\ UNCHANGED <<jobs, nextId, zips, dirs, queue, enq, redeliv, deleted, wpc, wjob,
                   taskFailed, discarded, reports, repVars>>

(* GET /jobs/{job_id}: the handler *)
get_job_request(j) ==
    /\ resp' = IF "error" \in DOMAIN get_job(j) THEN NotFound ELSE Ok
    /\ UNCHANGED <<jobs, nextId, zips, dirs, queue, enq, redeliv, deleted, wpc, wjob,
                   taskFailed, discarded, reports, repVars>>

(* Faulty variant: generating the report stamps the row. *)
get_json_report_Touch(j) ==
    /\ IF j \notin Present
       THEN resp' = NotFound /\ UNCHANGED <<jobs, reports>>
       ELSE /\ resp' = Ok
            /\ reports' = reports \cup {j}
            /\ jobs' = [jobs EXCEPT ![j].updated_at = utcnow(jobs[j])]
    /\ UNCHANGED <<nextId, zips, dirs, queue, enq, redeliv, deleted, wpc, wjob,
                   taskFailed, discarded, repVars>>

(* GET /jobs/{job_id}/report/json: the report is written to REPORTS_DIR *)
get_json_report(j) ==
    /\ IF j \notin Present
       THEN resp' = NotFound /\ UNCHANGED reports
       ELSE resp' = Ok /\ reports' = reports \cup {j}
    /\ UNCHANGED <<jobs, nextId, zips, dirs, queue, enq, redeliv, deleted, wpc, wjob,
                   taskFailed, discarded, repVars>>

(* Faulty variant: the row is used without the test of line 372. *)
get_pdf_report_NoCheck(j) ==
    /\ resp' = IF j \notin Present THEN ServerError ELSE Ok
    /\ UNCHANGED <<jobs, nextId, zips, dirs, queue, enq, redeliv, deleted, wpc, wjob,
                   taskFailed, discarded, reports, repVars>>

(* GET /jobs/{job_id}/report/pdf *)
get_pdf_report(j) ==
    /\ resp' = IF j \notin Present THEN NotFound ELSE Ok
    /\ UNCHANGED <<jobs, nextId, zips, dirs, queue, enq, redeliv, deleted, wpc, wjob,
                   taskFailed, discarded, reports, repVars>>

(* The broker hands a message it has already delivered to a worker again    *)
(* (at-least-once delivery of the Redis transport).                         *)
Redeliver(j) ==
    /\ redeliv < MaxRedeliver
    /\ enq[j] > 0
    /\ queue[j] = 0
    /\ queue' = Delay(queue, j)
    /\ redeliv' = redeliv + 1
    /\ UNCHANGED <<jobs, nextId, zips, dirs, enq, deleted, wpc, wjob, taskFailed, discarded, reports,
                   resp, repVars>>

(* Faulty variant: the scan starts whether the row is there or not. *)
StartTask_NoLookup(w, j) ==
    /\ wpc[w] = "idle"
    /\ queue[j] > 0
    /\ queue' = [queue EXCEPT ![j] = @ - 1]
    /\ jobs' = IF j \notin Present THEN jobs
               ELSE [jobs EXCEPT ![j].status = "ongoing", ![j].updated_at = utcnow(jobs[j])]
    /\ wpc' = [wpc EXCEPT ![w] = "scanning"]
    /\ wjob' = [wjob EXCEPT ![w] = j]
    /\ UNCHANGED <<nextId, zips, dirs, enq, redeliv, deleted, taskFailed, discarded, reports, resp,
                   repVars>>

(* run_scan_task, lines 14-23: look the job up, return if it is absent,     *)
(* otherwise write "ongoing" and commit.                                    *)
StartTask(w, j) ==
    /\ wpc[w] = "idle"
    /\ queue[j] > 0
    /\ queue' = [queue EXCEPT ![j] = @ - 1]
    /\ IF j \notin Present
       THEN /\ discarded' = discarded \cup {j}
            /\ UNCHANGED <<jobs, wpc, wjob>>
       ELSE /\ jobs' = [jobs EXCEPT ![j].status = "ongoing", ![j].updated_at = utcnow(jobs[j])]
            /\ wpc' = [wpc EXCEPT ![w] = "scanning"]
            /\ wjob' = [wjob EXCEPT ![w] = j]
            /\ UNCHANGED discarded
    /\ UNCHANGED <<nextId, zips, dirs, enq, redeliv, deleted, taskFailed, reports, resp, repVars>>

(* Faulty variant: the traceback is not stored. *)
ErrorDoc_NoTrace(msg) == [error |-> msg]

(* json.dumps({"error": str(e), "trace": traceback.format_exc()}) *)
ErrorDoc(msg) == [error |-> msg, trace |-> "Traceback"]

(* The row written by lines 29-34. *)
Completed(row, res, t) ==
    [row EXCEPT !.status = "completed", !.result = res,
                !.summary = Len(Get(res, "issues", <<>>)),
                !.completed_at = t, !.updated_at = t]

(* Faulty variant: a failure stamps completed_at as a completion does. *)
Failed_Stamped(row, msg, t) ==
    [row EXCEPT !.status = "failed",
                !.result = ErrorDoc(msg),
                !.completed_at = t, !.updated_at = t]

(* The row written by lines 38-41. *)
Failed(row, msg, t) ==
    [row EXCEPT !.status = "failed",
                !.result = ErrorDoc(msg),
                !.updated_at = t]

(* The outcome of the scan a worker is in: scan_project over the job's tree *)
ScanOutcome(w, o) == scan_project(<<wjob[w], TRUE>> \in dirs, o)

(* run_scan_task, lines 26-43: scan_project runs the tools against the      *)
(* extracted tree; its result or its exception is committed.  The session   *)
(* still holds the job object of line 16: a commit against a row that is    *)
(* gone updates no row and raises, the except branch (if job:) commits      *)
(* again, and that exception leaves the task.                               *)
FinishTask(w, o) ==
    /\ wpc[w] = "scanning"
    /\ LET j == wjob[w]
           r == ScanOutcome(w, o)
       IN IF r.t = "hang"
          THEN /\ wpc' = [wpc EXCEPT ![w] = "blocked"]
               /\ UNCHANGED <<jobs, wjob, taskFailed>>
          ELSE /\ wpc' = [wpc EXCEPT ![w] = "idle"]
               /\ wjob' = [wjob EXCEPT ![w] = 0]
               /\ IF j \notin Present
                  THEN /\ taskFailed' = taskFailed \cup {j}
                       /\ UNCHANGED jobs
                  ELSE /\ UNCHANGED taskFailed
                       /\ IF r.t = "ret"
                          THEN jobs' = [jobs EXCEPT ![j] = Completed(@, r.v, utcnow(@))]
                          ELSE jobs' = [jobs EXCEPT ![j] = Failed(@, r.m, utcnow(@))]
    /\ UNCHANGED <<nextId, zips, dirs, queue, enq, redeliv, deleted, discarded, reports, resp,
                   repVars>>

(* The uploaded projects of the job lifecycle carry a requirements.txt; the *)
(* scan of a project without one is explored in ReportSpec.                 *)
Manifests == {TRUE}

Next ==
    \/ \E name \in Filenames, goodZip \in BOOLEAN, hasManifest \in Manifests, brokerUp \in BOOLEAN :
          upload_project(name, goodZip, hasManifest, brokerUp)
    \/ \E j \in JobIds : delete_job(j)
    \/ delete_all_jobs
    \/ \E j \in JobIds : Redeliver(j)
    \/ \E w \in Workers, j \in JobIds : StartTask(w, j)
    \/ \E w \in Workers, o \in ScanInputs : FinishTask(w, o)

Spec == Init /\ [][Next]_vars

(* The whole HTTP interface, read requests included, in front of a broker   *)
(* that hands every message to a worker once.                               *)
ApiNext ==
    \/ \E name \in Filenames, goodZip \in BOOLEAN, hasManifest \in Manifests, brokerUp \in BOOLEAN :
          upload_project(name, goodZip, hasManifest, brokerUp)
    \/ \E j \in JobIds : delete_job(j)
    \/ delete_all_jobs
    \/ get_all_jobs
    \/ \E j \in JobIds : get_job_request(j)
    \/ \E j \in JobIds : get_json_report(j)
    \/ \E j \in JobIds : get_pdf_report(j)
    \/ \E w \in Workers, j \in JobIds : StartTask(w, j)
    \/ \E w \in Workers, o \in ScanInputs : FinishTask(w, o)

ApiSpec == Init /\ [][ApiNext]_vars

(* Every queued message is eventually handed to a free worker and a worker  *)
(* that can continue its task does so.                                      *)
FairSpec ==
    /\ Spec
    /\ \A w \in Workers : WF_vars(\E j \in JobIds : StartTask(w, j))
    /\ \A w \in Workers : WF_vars(\E o \in ScanInputs : FinishTask(w, o))

----------------------------------------------------------------------------
(* Claims about the job lifecycle *)

InProgress == {"running", "ongoing"}

StatusStep(a, b) ==
    \/ a = b
    \/ a = "pending" /\ b \in InProgress
    \/ a \in InProgress /\ b \in Terminal

(* C1: the status of a job only moves pending -> running -> completed or    *)
(* failed; it never moves backwards and a terminal status never changes.    *)
(* The in-progress label the executor writes is taken as the running state. *)
C1_StatusMonotonic ==
    [][\A j \in Present \cap Present' : StatusStep(jobs[j].status, jobs'[j].status)]_vars

(* C2: a job's result document is non-empty exactly when its status is      *)
(* terminal.                                                                *)
C2_ResultIffTerminal ==
    \A j \in Present : (jobs[j].result # EmptyDoc) <=> (jobs[j].status \in Terminal)

(* C3: a task delivered for a job that is already completed or failed       *)
(* changes nothing in the job's row and starts no scan.                     *)
C3_RedeliveryNoOp ==
    [][\A j \in Present :
          (queue'[j] < queue[j] /\ jobs[j].status \in Terminal)
              => (j \in Present' /\ jobs'[j] = jobs[j] /\ wpc' = wpc)]_vars

FailedTool(o) ==
    \/ o.bandit.t # "json"
    \/ o.semgrep.t # "json"
    \/ o.pip.t # "json"
    \/ \E i \in 1..Len(o.pylint) : o.pylint[i].t # "json"

AnalyzerKeys == {"static_code_analysis", "dependency_scan", "coding_standards"}

(* C4: when an analyzer fails (unparseable output, missing binary, no       *)
(* termination), the scan still ends, the job is completed and its result   *)
(* holds the entries of all analyzers.                                      *)
C4_AnalyzerFailureIsolated ==
    [][\A w \in Workers, o \in ScanInputs :
          (FinishTask(w, o) /\ FailedTool(o) /\ wjob[w] \in Present)
              => /\ wpc'[w] = "idle"
                 /\ jobs'[wjob[w]].status = "completed"
                 /\ AnalyzerKeys \subseteq DOMAIN jobs'[wjob[w]].result]_vars

(* C5: once a job is deleted, its row, its archive and its extracted tree   *)
(* are gone, fetching it answers not-found, and no step of an executor      *)
(* brings the row back.                                                     *)
C5_DeletedStaysGone ==
    \A j \in deleted :
        /\ j \notin Present
        /\ \A z \in zips : z[1] # j
        /\ \A d \in dirs : d[1] # j
        /\ get_job(j) = [error |-> "Job not found"]

(* A job deleted in the middle of its scan, and one deleted while its task  *)
(* was waiting or after its executor returned.                              *)
C5_Witness ==
    /\ \E j \in deleted : \E w \in Workers : wpc[w] = "scanning" /\ wjob[w] = j
    /\ \E j \in deleted : enq[j] > 0 /\ \A w \in Workers : wjob[w] # j

(* C6 as stated: every pending row has had its task enqueued, and no job    *)
(* has more than one task scheduled by its submission.                      *)
C6_PendingHasTask ==
    \A j \in Present :
        /\ enq[j] <= 1
        /\ jobs[j].status = "pending" => enq[j] = 1

(* C6 amended: an upload that creates a row creates exactly one, pending,   *)
(* with the empty result, and enqueues at most one task for it: exactly one *)
(* when the broker accepts the message, none when the enqueue fails; a row  *)
(* whose task was never enqueued stays pending.                             *)
C6_UploadCreatesOneTask ==
    [][/\ \A j \in Present' \ Present :
             /\ Present' = Present \cup {j}
             /\ jobs'[j].status = "pending"
             /\ jobs'[j].result = EmptyDoc
             /\ queue'[j] - queue[j] = enq'[j] - enq[j]
             /\ enq[j] = 0
       /\ \A j \in JobIds : enq'[j] <= 1
       /\ \A j \in JobIds : enq'[j] > enq[j] => j \in Present' \ Present
       /\ \A j \in Present' : enq'[j] = 0 => jobs'[j].status = "pending"]_vars

(* Both kinds of upload have happened: one with its task, one without. *)
C6_Witness ==
    /\ \E j \in Present : enq[j] = 1
    /\ \E j \in Present : enq[j] = 0 /\ jobs[j].status = "pending"

(* C7: with fair delivery, a job that has a task and is never deleted       *)
(* reaches completed or failed, whatever the analyzers do.                  *)
C7_EventuallyTerminal ==
    \A j \in JobIds :
        (j \in Present /\ enq[j] > 0)
            ~> (j \notin Present \/ jobs[j].status \in Terminal)

----------------------------------------------------------------------------
(* Claims about the HTTP interface *)

InvalidName(name) == name = <<>> \/ ~EndsWith(name, ".zip")

(* C11: an upload whose filename is missing or does not end in .zip is      *)
(* answered with a client error and has no effect: no row, no file, no      *)
(* task.                                                                    *)
C11_InvalidUploadRejected ==
    [][\A name \in Filenames, goodZip \in BOOLEAN, hasManifest \in BOOLEAN, brokerUp \in BOOLEAN :
          (InvalidName(name) /\ upload_project(name, goodZip, hasManifest, brokerUp))
              => /\ resp'.code \in ClientErrors
                 /\ UNCHANGED <<jobs, zips, dirs, queue, enq>>]_vars

(* C12: a fetch, a delete, a JSON report or an HTML report that names a job *)
(* id with no row answers the not-found payload and changes neither the     *)
(* store, nor the files, nor the queue.                                     *)
C12_AbsentJobNotFound ==
    [][\A j \in JobIds :
          (j \notin Present
             /\ (get_job_request(j) \/ delete_job(j) \/ get_json_report(j) \/ get_pdf_report(j)))
              => /\ resp' = NotFound
                 /\ UNCHANGED <<jobs, zips, dirs, reports, queue, enq>>]_vars

(* A request for a deleted job has been answered while another job and a    *)
(* report of it are there to be disturbed.                                  *)
C12_Witness ==
    /\ resp = NotFound
    /\ deleted # {}
    /\ \E j \in Present : j \in reports /\ queue[j] > 0

(* C13: a submission never hands out an id that a row has or had, deletion  *)
(* included, and the archive and the extracted tree it writes belong to no  *)
(* other job; every job has one archive and one tree.                       *)
C13_IdsNeverShared ==
    [][/\ \A j \in DOMAIN jobs' \ Present :
             /\ j \notin deleted
             /\ \A f \in zips : f[1] # j
             /\ \A f \in dirs : f[1] # j
       /\ \A j \in DOMAIN jobs' :
             /\ Cardinality({f \in zips' : f[1] = j}) = 1
             /\ Cardinality({f \in dirs' : f[1] = j}) = 1]_vars

(* A second job was submitted after the first one was deleted. *)
C13_Witness ==
    \E i \in deleted, j \in Present : i < j /\ jobs[j].status = "pending"

----------------------------------------------------------------------------
(* Claims about the executor *)

(* C15 as stated: completed_at is set exactly when the status is completed  *)
(* or failed.                                                               *)
C15_CompletedAtIffTerminal ==
    \A j \in Present : (jobs[j].completed_at # NoTime) <=> (jobs[j].status \in Terminal)

(* C15 amended: a completed job has completed_at set, a pending job has it  *)
(* unset, and only the step that writes completed writes completed_at: a    *)
(* failed job has it set only if an earlier run of its task completed.      *)
C15_CompletedAtByCompletion ==
    [][\A j \in DOMAIN jobs' :
          /\ jobs'[j].status = "completed" => jobs'[j].completed_at # NoTime
          /\ jobs'[j].status = "pending" => jobs'[j].completed_at = NoTime
          /\ (j \in Present /\ jobs'[j].completed_at # jobs[j].completed_at)
                => jobs'[j].status = "completed"]_vars

(* One job has completed and another has failed on its first run. *)
C15_Witness ==
    \E i \in Present, j \in Present :
        /\ jobs[i].status = "completed" /\ jobs[i].completed_at # NoTime
        /\ jobs[j].status = "failed" /\ jobs[j].completed_at = NoTime

C17_NoFailureEscapes == taskFailed = {}

(* C18: a task delivered for a job id with no row returns at once: no scan  *)
(* starts, and no row, file or other queue entry changes.                   *)
C18_AbsentJobTaskDiscarded ==
    [][\A w \in Workers, j \in JobIds :
          (StartTask(w, j) /\ j \notin Present)
              => /\ UNCHANGED <<jobs, zips, dirs, reports, wpc, wjob, taskFailed, enq>>
                 /\ queue' = [queue EXCEPT ![j] = @ - 1]]_vars

(* The task of a deleted job was delivered while another job was queued. *)
C18_Witness ==
    /\ discarded # {}
    /\ \E j \in Present : queue[j] > 0

(* C19: when the row was deleted while its scan ran, the executor finds it  *)
(* gone, drops the result, writes nothing and the task ends normally.       *)
C19_DeletedDuringScanDiscarded ==
    [][\A w \in Workers, o \in ScanInputs :
          (FinishTask(w, o) /\ wjob[w] \notin Present /\ ScanOutcome(w, o).t # "hang")
              => /\ UNCHANGED <<jobs, zips, dirs, queue>>
                 /\ wpc'[w] = "idle"
                 /\ UNCHANGED taskFailed]_vars

(* The statuses the job table documents *)
DocumentedStatuses == {"pending", "running", "completed", "failed"}

(* C20: the stored status of every job is pending, running, completed or    *)
(* failed.                                                                  *)
C20_StatusDocumented ==
    \A j \in Present : jobs[j].status \in DocumentedStatuses

(* C21: the result of every completed job holds one entry for each         *)
(* analyzer: bandit and semgrep under static_code_analysis, the dependency  *)
(* audit and pylint, whether the analyzer produced findings or an error.    *)
C21_EveryAnalyzerHasEntry ==
    \A j \in Present :
        jobs[j].status = "completed"
            => /\ AnalyzerKeys \subseteq DOMAIN jobs[j].result
               /\ DOMAIN jobs[j].result.static_code_analysis = {"bandit", "semgrep"}

(* A job completed although one of its analyzers produced no JSON: the      *)
(* entry of that analyzer is the error entry.                               *)
C21_Witness ==
    \E j \in Present :
        /\ jobs[j].status = "completed"
        /\ "error" \in DOMAIN jobs[j].result.static_code_analysis.semgrep
        /\ "results" \in DOMAIN jobs[j].result.static_code_analysis.bandit

(* The number of issues an analyzer's entry holds *)
RECURSIVE SumLen(_)
SumLen(ss) == IF ss = <<>> THEN 0 ELSE Len(Head(ss)) + SumLen(Tail(ss))

RECURSIVE SumVulns(_)
SumVulns(deps) ==
    IF deps = <<>> THEN 0 ELSE Len(Get(Head(deps), "vulns", <<>>)) + SumVulns(Tail(deps))

IssueCount(doc) ==
    Len(Get(doc.static_code_analysis.bandit, "results", <<>>))
      + Len(Get(doc.static_code_analysis.semgrep, "results", <<>>))
      + SumVulns(Get(doc.dependency_scan, "dependencies", <<>>))
      + SumLen(doc.coding_standards)

(* C22: the number in the summary of a completed job is the sum of the      *)
(* issue counts of the analyzers' entries in its result.                    *)
C22_SummaryCountsIssues ==
    \A j \in Present :
        jobs[j].status = "completed" => jobs[j].summary = IssueCount(jobs[j].result)

ReadRequest ==
    \/ get_all_jobs
    \/ \E j \in JobIds : get_job_request(j) \/ get_json_report(j) \/ get_pdf_report(j)

(* C23: the list, fetch, JSON-report and HTML-report requests change no row *)
(* and no queue entry; a row disappears only in a delete request; a row     *)
(* that stays is changed only by a step of the executor working on it.      *)
C23_RecordsChangedByExecutorOnly ==
    [][/\ ReadRequest => UNCHANGED <<jobs, queue, enq>>
       /\ \A j \in Present :
             IF j \notin DOMAIN jobs'
             THEN delete_job(j) \/ delete_all_jobs
             ELSE jobs'[j] # jobs[j]
                    => \E w \in Workers :
                          \/ StartTask(w, j)
                          \/ wjob[w] = j /\ \E o \in ScanInputs : FinishTask(w, o)]_vars

(* The reports of a completed job were requested, its row is still there,   *)
(* and another job has been deleted.                                        *)
C23_Witness ==
    /\ resp = Ok
    /\ deleted # {}
    /\ \E j \in Present : j \in reports /\ jobs[j].status = "completed"

(* The workers that are inside run_scan_task after its first commit *)
Holding(j) == {w \in Workers : wpc[w] \in {"scanning", "blocked"} /\ wjob[w] = j}

(* C24: no two workers are at the same time between the first commit and    *)
(* the terminal write of the same job.                                      *)
C24_OneExecutorPerJob ==
    \A j \in JobIds : Cardinality(Holding(j)) <= 1

----------------------------------------------------------------------------
(* generate_html_report, lines 395-409 *)
RECURSIVE CountSeverity(_, _)
CountSeverity(rs, sev) ==
    IF rs = <<>> THEN 0
    ELSE (IF Get(Head(rs), "issue_severity", "None") = sev THEN 1 ELSE 0)
         + CountSeverity(Tail(rs), sev)

Max(a, b) == IF a >= b THEN a ELSE b
Min(a, b) == IF a <= b THEN a ELSE b

bandit_results(d) == Get(Get(Get(d, "static_code_analysis", EmptyDoc), "bandit", EmptyDoc), "results", <<>>)
semgrep_results(d) == Get(Get(Get(d, "static_code_analysis", EmptyDoc), "semgrep", EmptyDoc), "results", <<>>)
pip_audit_results(d) == Get(Get(Get(d, "dependency_analysis", EmptyDoc), "pip_audit", EmptyDoc), "vulnerabilities", <<>>)

(* Faulty variant: the score is not floored at 0. *)
Score2_NoFloor(total, critical, high) ==
    Min(20, 20 - critical * 6 - high * 2 - (total - critical - high))

Score2(total, critical, high) ==
    Max(0, Min(20, 20 - critical * 6 - high * 2 - (total - critical - high)))

generate_html_report(d) ==
    LET total_issues == Len(bandit_results(d)) + Len(semgrep_results(d)) + Len(pip_audit_results(d))
        critical_issues == CountSeverity(bandit_results(d), "HIGH")
        high_issues == CountSeverity(bandit_results(d), "MEDIUM")
    IN  [total |-> total_issues, critical |-> critical_issues, high |-> high_issues,
         score2 |-> Score2(total_issues, critical_issues, high_issues)]

(* Tool outputs of the report pipeline *)
RECURSIVE SeqsUpTo(_, _)
SeqsUpTo(S, n) ==
    IF n = 0 THEN {<<>>}
    ELSE LET shorter == SeqsUpTo(S, n - 1)
         IN shorter \cup {Append(q, x) : q \in {p \in shorter : Len(p) = n - 1}, x \in S}

BanditIssues == {[issue_severity |-> v] : v \in {"HIGH", "MEDIUM", "LOW"}}
SemgrepIssues == {[extra |-> [severity |-> v]] : v \in {"ERROR", "WARNING"}}
BanditOutputs == {Json([results |-> q]) : q \in SeqsUpTo(BanditIssues, MaxBandit)} \cup {Garbage, NoBinary}
SemgrepOutputs == {Json([results |-> q]) : q \in SeqsUpTo(SemgrepIssues, MaxSemgrep)} \cup {Garbage}
PipOutputs == {Json([dependencies |-> <<[vulns |-> [i \in 1..n |-> "CVE"]]>>]) : n \in 0..MaxVulns}
              \cup {Garbage, NoBinary, NeverEnds}

(* One job, uploaded and marked "ongoing", for every combination of tool     *)
(* outputs.                                                                  *)
ReportInit ==
    /\ jobs = [k \in {} |-> 0]
    /\ nextId = 1
    /\ zips = {}
    /\ dirs = {}
    /\ queue = [j \in JobIds |-> 0]
    /\ enq = [j \in JobIds |-> 0]
    /\ redeliv = 0
    /\ deleted = {}
    /\ wpc = [w \in Workers |-> "idle"]
    /\ wjob = [w \in Workers |-> 0]
    /\ taskFailed = {}
    /\ discarded = {}
    /\ reports = {}
    /\ resp = NoResponse
    /\ rpc = "scanning"
    /\ tools \in [bandit : BanditOutputs, semgrep : SemgrepOutputs, pip : PipOutputs, pylint : {LintOk}]
    /\ project \in BOOLEAN
    /\ rrow = [NewJob(<<"a", ".zip">>, FirstTime) EXCEPT !.status = "ongoing"]
    /\ report = [total |-> 0, critical |-> 0, high |-> 0, score2 |-> 20]

(* run_scan_task, lines 26-43, on the tool outputs of the pipeline. *)
ReportScan ==
    /\ rpc = "scanning"
    /\ LET r == scan_project(project, tools)
       IN IF r.t = "hang"
          THEN rpc' = "blocked" /\ UNCHANGED rrow
          ELSE /\ rpc' = "stored"
               /\ rrow' = IF r.t = "ret" THEN Completed(rrow, r.v, utcnow(rrow))
                                         ELSE Failed(rrow, r.m, utcnow(rrow))
    /\ UNCHANGED <<jobVars, tools, project, report>>

(* get_pdf_report: json.loads(job.result), then generate_html_report. *)
ReportGenerate ==
    /\ rpc = "stored"
    /\ rpc' = "reported"
    /\ report' = generate_html_report(rrow.result)
    /\ UNCHANGED <<jobVars, tools, project, rrow>>

ReportNext == ReportScan \/ ReportGenerate

ReportSpec == ReportInit /\ [][ReportNext]_vars

----------------------------------------------------------------------------
(* Claims about the report score *)

BanditFindings(d) ==
    IF "static_code_analysis" \in DOMAIN d /\ "results" \in DOMAIN d.static_code_analysis.bandit
    THEN d.static_code_analysis.bandit.results ELSE <<>>

SemgrepFindings(d) ==
    IF "static_code_analysis" \in DOMAIN d /\ "results" \in DOMAIN d.static_code_analysis.semgrep
    THEN d.static_code_analysis.semgrep.results ELSE <<>>

NumBandit(d, sev) ==
    Cardinality({i \in 1..Len(BanditFindings(d)) : BanditFindings(d)[i].issue_severity = sev})

NumSemgrep(d, sev) ==
    Cardinality({i \in 1..Len(SemgrepFindings(d)) : SemgrepFindings(d)[i].extra.severity = sev})

(* Findings of the static analyzers by severity class: bandit's HIGH and    *)
(* semgrep's ERROR are the highest class, MEDIUM and WARNING the medium one.*)
NumHighest(d) == NumBandit(d, "HIGH") + NumSemgrep(d, "ERROR")
NumMedium(d) == NumBandit(d, "MEDIUM") + NumSemgrep(d, "WARNING")

Clamp20(x) == IF x < 0 THEN 0 ELSE IF x > 20 THEN 20 ELSE x

RECURSIVE NumVulns(_)
NumVulns(deps) ==
    IF deps = <<>> THEN 0 ELSE Len(Head(deps).vulns) + NumVulns(Tail(deps))

(* The vulnerabilities pip-audit recorded in the dependency entry. *)
Vulnerabilities(d) ==
    IF "dependency_scan" \in DOMAIN d /\ "dependencies" \in DOMAIN d.dependency_scan
    THEN NumVulns(d.dependency_scan.dependencies) ELSE 0

(* C9: every vulnerability the dependency audit recorded in the job's       *)
(* result is counted among the issues of the report and costs 0.5.          *)
C9_VulnerabilitiesCounted ==
    (rpc = "reported" /\ rrow.status = "completed") =>
        LET d == rrow.result
            total == Len(BanditFindings(d)) + Len(SemgrepFindings(d)) + Vulnerabilities(d)
        IN /\ report.total = total
           /\ report.score2 = Clamp20(20 - 6 * report.critical - 2 * report.high
                                         - (total - report.critical - report.high))

(* The processes of the other analyzers run and exit. *)
OthersReturn ==
    /\ tools.bandit.t \in {"json", "garbage"}
    /\ tools.semgrep.t \in {"json", "garbage"}
    /\ \A i \in 1..Len(tools.pylint) : tools.pylint[i].t \in {"json", "garbage"}

NoManifestEntry(d) ==
    /\ "dependency_scan" \in DOMAIN d
    /\ "error" \notin DOMAIN d.dependency_scan
    /\ d.dependency_scan.vulnerabilities_found = 0

====
